---- MODULE Spec2Model ----
(***************************************************************************)
(* Nexus 2.0: the REST API over the goals/tasks store (server.js), and the *)
(* read-only gateway (read-only-server.js, src/unnamed/part_001).          *)
(*                                                                         *)
(* The store is the SQLite file both processes open.  SQL values are       *)
(* modelled as follows: TEXT values are strings, SQL NULL in a TEXT column *)
(* is the string NULL, SQL NULL in an INTEGER column (and a NULL aggregate)*)
(* is NullInt.  CURRENT_TIMESTAMP has a resolution of one second; the      *)
(* clock `now` counts seconds.                                             *)
(***************************************************************************)
EXTENDS Integers, Sequences, FiniteSets, TLC

VARIABLES
    target,   \* DATABASE_PATH of the full server: a file ("file", or the name
              \* the Storage Locator resolved) or ":memory:"
    goals,    \* rows of table goals in the file store, in rowid order
    tasks,    \* rows of table tasks in the file store, in rowid order
    seq,      \* sqlite_sequence entry of goals (AUTOINCREMENT high-water mark)
    now,      \* wall clock, in seconds
    req,      \* the request handled last
    resp,     \* the response sent to it
    env,      \* what startup finds: process.env.DATABASE_PATH and the
              \* directories of the candidate locations
    issued,   \* the ids this process returned for POST /api/goals, in order
    call,     \* the storage call of the handler in progress: its query, its
              \* watchdog timer and the time it has been waiting; the
              \* connection the handler was handed
    schema,   \* the tables that exist in the file store
    boot,     \* the server process's startup: whether it listens, and its
              \* Schema Initializer
    ui        \* the page's NexusApp object: its focus timer, the intervals
              \* the browser runs for it and the timer text

vars == <<target, goals, tasks, seq, now, req, resp, env, issued, call,
          schema, boot, ui>>

----------------------------------------------------------------------------
(* The page's focus timer (public/app.js) *)

\* this.focusTime of the constructor: 25 minutes in seconds
focusTime == 25 * 60

\* the NexusApp object after its constructor, and what the browser holds
\* for it
NoUi ==
    [ focusTimer |-> 0,       \* this.focusTimer: an interval handle, 0 for null
      active |-> {},          \* the intervals the browser runs: handle h and
                              \* the timeLeft of the callback's closure
      handles |-> 0,          \* the handles setInterval has returned for timers
      written |-> focusTime,  \* the seconds of the last text the callback
                              \* wrote as minutes:seconds
      text |-> focusTime,     \* the seconds the timer element shows
      fetching |-> 0,         \* getNextTask calls awaiting their fetch
      skips |-> 0,            \* skipTask timeouts not yet due
      rendered |-> FALSE,     \* a task with its Skip button is rendered
      finished |-> 0 ]        \* countdowns that reached 0

----------------------------------------------------------------------------
(* Bounds of the model *)

MaxGoals == 2
MaxTasks == 2
\* handles setInterval returns for focus timers
MaxStarts == 3
\* getNextTask calls, and skipTask timeouts, pending at a time
MaxInFlight == 2
MaxClock == 1

----------------------------------------------------------------------------
(* Values *)

NULL == "NULL"
undefined == "undefined"
NullInt == -1

\* node-sqlite3 binds a JS undefined parameter as SQL NULL
Bind(v) == IF v = undefined THEN NULL ELSE v

\* The TEXT values the model uses, in the order of SQLite's BINARY collation
\* (memcmp): the empty string, digits before lower-case letters, then
\* alphabetical.
Collation ==
    << "", "2025-01-01", "2025-01-10", "a", "completed", "d", "high",
       "in_progress", "low", "medium", "pending", "urgent", "work" >>

TextRank(s) == CHOOSE i \in 1..Len(Collation) : Collation[i] = s

\* a < b in an ORDER BY on a TEXT column: NULL sorts before every value
TextLess(a, b) ==
    IF a = NULL THEN b # NULL
    ELSE IF b = NULL THEN FALSE
    ELSE TextRank(a) < TextRank(b)

\* All orders in which a SELECT ... ORDER BY may return `rows`: every
\* permutation in which no row comes after a row it must precede.  SQL leaves
\* the order of rows that tie on every sort key unspecified.
OrderBy(rows, before) ==
    LET n == Len(rows)
        Perms == { p \in [1..n -> 1..n] : \A i, j \in 1..n : p[i] = p[j] => i = j }
    IN  { [i \in 1..n |-> rows[p[i]]] : p \in
            { q \in Perms : \A i, j \in 1..n :
                i < j => <<q[j], q[i]>> \notin before } }

----------------------------------------------------------------------------
(* Table goals *)

\* ORDER BY priority DESC, created_at DESC
GoalsOrder(a, b) ==
    \/ TextLess(b.priority, a.priority)
    \/ a.priority = b.priority /\ b.created_at < a.created_at

\* SELECT * FROM goals ORDER BY priority DESC, created_at DESC
SelectGoals(rows) ==
    OrderBy(rows, { p \in (DOMAIN rows) \X (DOMAIN rows) :
                        GoalsOrder(rows[p[1]], rows[p[2]]) })

\* INSERT INTO goals (title, description, category, target_date, priority):
\* the row stored for bound parameters p.  id comes from AUTOINCREMENT;
\* progress, created_at and updated_at are not in the column list and take
\* their DEFAULT; the five listed columns take the bound value, NULL included.
InsertGoalRow(p, lastSeq, time) ==
    [ id          |-> lastSeq + 1,
      title       |-> Bind(p.title),
      description |-> Bind(p.description),
      category    |-> Bind(p.category),
      target_date |-> Bind(p.target_date),
      priority    |-> Bind(p.priority),
      progress    |-> 0,
      created_at  |-> time,
      updated_at  |-> time ]

\* title TEXT NOT NULL
GoalConstraintOk(p) == Bind(p.title) # NULL

----------------------------------------------------------------------------
(* Table tasks.  Only the columns a WHERE, JOIN or ORDER BY reads are kept, *)
(* with title; description, estimated_time, actual_time, completed_at and   *)
(* created_at are returned as stored and read by no query.                  *)

\* JS truthiness of a query-string value: absent and "" are falsy
Truthy(v) == v # undefined /\ v # ""

\* Decimal text of the integers a goal_id parameter may name
Decimal == << "1", "2", "3" >>

\* goal_id = ? with a TEXT parameter: the INTEGER column gives the parameter
\* NUMERIC affinity, so text that looks like an integer is compared as that
\* integer; NULL = x is never true.
GoalIdEquals(col, param) ==
    /\ col # NullInt
    /\ \E n \in 1..Len(Decimal) : Decimal[n] = param /\ col = n

\* status = ? on TEXT; NULL = x is never true
StatusEquals(col, param) == col # NULL /\ col = param

\* a WHERE clause that joins the two conditions with OR
TasksWhereAny(t, goal_id, status) ==
    IF Truthy(goal_id) \/ Truthy(status)
    THEN \/ Truthy(goal_id) /\ GoalIdEquals(t.goal_id, goal_id)
         \/ Truthy(status) /\ StatusEquals(t.status, status)
    ELSE TRUE

\* the WHERE clause app.get('/api/tasks') builds from req.query
TasksWhere(t, goal_id, status) ==
    IF Truthy(goal_id) \/ Truthy(status)
    THEN /\ Truthy(goal_id) => GoalIdEquals(t.goal_id, goal_id)
         /\ Truthy(status) => StatusEquals(t.status, status)
    ELSE TRUE

\* ORDER BY priority DESC, due_date ASC
TasksOrder(a, b) ==
    \/ TextLess(b.priority, a.priority)
    \/ a.priority = b.priority /\ TextLess(a.due_date, b.due_date)

\* SELECT * FROM tasks [WHERE ...] ORDER BY priority DESC, due_date ASC
SelectTasks(rows, goal_id, status) ==
    LET kept == SelectSeq(rows, LAMBDA t : TasksWhere(t, goal_id, status))
    IN  OrderBy(kept, { p \in (DOMAIN kept) \X (DOMAIN kept) :
                            TasksOrder(kept[p[1]], kept[p[2]]) })

----------------------------------------------------------------------------
(* Focus engine *)

\* a rank in which everything unrecognized comes first
PriorityRankElseFirst(p) ==
    CASE p = "high" -> 1
      [] p = "medium" -> 2
      [] p = "low" -> 3
      [] OTHER -> 0

\* CASE x WHEN 'high' THEN 1 WHEN 'medium' THEN 2 WHEN 'low' THEN 3 ELSE 4 END
PriorityRank(p) ==
    CASE p = "high" -> 1
      [] p = "medium" -> 2
      [] p = "low" -> 3
      [] OTHER -> 4

\* tasks t LEFT JOIN goals g ON t.goal_id = g.id: t.*, g.title AS goal_title,
\* g.priority AS goal_priority; both NULL when no goal row matches.
JoinGoal(t, goalRows) ==
    LET m == { i \in 1..Len(goalRows) :
                 t.goal_id # NullInt /\ goalRows[i].id = t.goal_id }
    IN  [ id |-> t.id, goal_id |-> t.goal_id, title |-> t.title,
          status |-> t.status, priority |-> t.priority,
          due_date |-> t.due_date,
          goal_title |-> IF m = {} THEN NULL
                         ELSE goalRows[CHOOSE i \in m : TRUE].title,
          goal_priority |-> IF m = {} THEN NULL
                            ELSE goalRows[CHOOSE i \in m : TRUE].priority ]

\* the focus order with the task priority as the first key
FocusOrderTaskFirst(a, b) ==
    \/ PriorityRank(a.priority) < PriorityRank(b.priority)
    \/ /\ PriorityRank(a.priority) = PriorityRank(b.priority)
       /\ \/ PriorityRank(a.goal_priority) < PriorityRank(b.goal_priority)
          \/ /\ PriorityRank(a.goal_priority) = PriorityRank(b.goal_priority)
             /\ TextLess(a.due_date, b.due_date)

\* ORDER BY CASE g.priority ..., CASE t.priority ..., t.due_date ASC
FocusOrder(a, b) ==
    \/ PriorityRank(a.goal_priority) < PriorityRank(b.goal_priority)
    \/ /\ PriorityRank(a.goal_priority) = PriorityRank(b.goal_priority)
       /\ \/ PriorityRank(a.priority) < PriorityRank(b.priority)
          \/ /\ PriorityRank(a.priority) = PriorityRank(b.priority)
             /\ TextLess(a.due_date, b.due_date)

\* the focus query: the rows db.get may deliver, as sequences of length 1,
\* or the empty sequence when no task is pending (row undefined)
SelectNextTask(goalRows, taskRows) ==
    LET pending == SelectSeq(taskRows, LAMBDA t : StatusEquals(t.status, "pending"))
        joined == [i \in 1..Len(pending) |-> JoinGoal(pending[i], goalRows)]
        before == { p \in (DOMAIN joined) \X (DOMAIN joined) :
                        FocusOrder(joined[p[1]], joined[p[2]]) }
    IN  { IF s = <<>> THEN <<>> ELSE <<Head(s)>> : s \in OrderBy(joined, before) }

----------------------------------------------------------------------------
(* Progress summary *)

RECURSIVE SumProgress(_)
SumProgress(rows) ==
    IF rows = <<>> THEN 0 ELSE Head(rows).progress + SumProgress(Tail(rows))

\* SELECT COUNT(*), SUM(CASE WHEN progress = 100 THEN 1 ELSE 0 END),
\*        AVG(progress), COUNT(DISTINCT category) FROM goals
\* SUM and AVG over no rows are NULL; AVG is the real sum/count, kept as the
\* fraction num/den.
SelectSummary(goalRows) ==
    LET n == Len(goalRows) IN
    [ total_goals |-> n,
      completed_goals |->
          IF n = 0 THEN NullInt
          ELSE Cardinality({ i \in 1..n : goalRows[i].progress = 100 }),
      average_progress |->
          IF n = 0 THEN [isNull |-> TRUE, num |-> 0, den |-> 1]
          ELSE [isNull |-> FALSE, num |-> SumProgress(goalRows), den |-> n],
      categories_count |->
          Cardinality({ goalRows[i].category : i \in 1..n } \ {NULL}) ]

\* SELECT status, COUNT(*) AS count FROM tasks GROUP BY status
SelectTaskCounts(taskRows) ==
    { [ status |-> s,
        count |-> Cardinality({ i \in 1..Len(taskRows) : taskRows[i].status = s }) ] :
      s \in { taskRows[i].status : i \in 1..Len(taskRows) } }

----------------------------------------------------------------------------
(* Requests and responses.  A request record also keeps what the storage   *)
(* engine did while the request was handled (db).                          *)

NoReq ==
    [ server |-> "none", method |-> "none", path |-> <<>>,
      body |-> [title |-> undefined, description |-> undefined,
                category |-> undefined, target_date |-> undefined,
                priority |-> undefined],
      bodyOk |-> TRUE, goal_id |-> undefined, status |-> undefined,
      db |-> "none" ]

NoSummary ==
    [ total_goals |-> 0, completed_goals |-> 0,
      average_progress |-> [isNull |-> TRUE, num |-> 0, den |-> 1],
      categories_count |-> 0 ]

\* status: the HTTP status; keys: the field names of a JSON object body;
\* rows: the rows of a JSON array body (or the one row of a row body);
\* health: the status field of a health body; database: its database field;
\* dbOpened: whether handling the request opened a storage connection.
NoResp ==
    [ status |-> 0, kind |-> "none", keys |-> {}, rows |-> <<>>, id |-> 0,
      summary |-> NoSummary, tasks |-> {}, health |-> "", database |-> "",
      dbOpened |-> FALSE ]

\* no storage call is pending.  query: "running" until its callback has run;
\* timer: the handler's setTimeout, "armed" until it fires or is cleared;
\* waited: 0 while less than 5000 ms have passed since the call was issued,
\* 1 when 5000 ms have passed, 2 when more have
NoCall ==
    [ query |-> "none", timer |-> "none", waited |-> 0,
      conn |-> "none", tables |-> {},
      \* the res.json calls the handler has made for the request, and
      \* whether one of them threw because a response was sent already
      sends |-> 0, threw |-> FALSE,
      \* the db.close calls made on the handler's connection
      closes |-> 0,
      \* the 3000 ms database-check timer and the 5000 ms overall timer of
      \* the health handler
      dbTimer |-> "none", overall |-> "none" ]

\* the five tables of the schema
Tables == {"goals", "tasks", "resources", "focus_sessions", "learning_patterns"}

\* a process that is listening, its startup over and the schema created
Booted ==
    [ variant |-> "none", listening |-> TRUE, init |-> "done", runs |-> 0,
      err |-> FALSE ]

\* no exchange is in progress: the last response has been delivered
Idle == req.server = "none"

StorageTargets == {"file", ":memory:"}

\* JSON bodies of POST /api/goals
GoalPayloads ==
    { [ title |-> t, description |-> o.description, category |-> o.category,
        target_date |-> o.target_date, priority |-> p ] :
        t \in {undefined, "", "a"},
        p \in {undefined, "high", "medium"},
        o \in { [description |-> undefined, category |-> undefined,
                 target_date |-> undefined],
                [description |-> "d", category |-> "work",
                 target_date |-> "2025-01-10"] } }

----------------------------------------------------------------------------
(* Storage Locator: the selection of DATABASE_PATH at startup (server.js   *)
(* lines 23-77)                                                            *)

\* the `locations` array, in its order: __dirname/data/nexus2.db,
\* /home/node/nexus2.db, /tmp/nexus2.db
Locations == <<"data", "home", "tmp">>

\* the file a DATABASE_PATH override names
Custom == "custom"

\* target before the selection has run
Unresolved == "unresolved"

\* A directory as startup finds it: exists (fs.existsSync), creatable
\* (fs.mkdirSync(dir, { recursive: true }) does not throw), writable
\* (fs.accessSync(dir, fs.constants.W_OK) does not throw once it exists)
Directories == [exists : BOOLEAN, creatable : BOOLEAN, writable : BOOLEAN]

\* process.env.DATABASE_PATH: not set, the empty string, or a path
Overrides == {undefined, "", Custom}

Environments ==
    [ override : Overrides,
      dirs : [{"data", "home", "tmp", Custom} -> Directories] ]

\* an environment in which every directory exists and is writable
NoEnv ==
    [ override |-> undefined,
      dirs |-> [d \in {"data", "home", "tmp", Custom} |->
                  [exists |-> TRUE, creatable |-> TRUE, writable |-> TRUE]] ]

\* a probe that makes no attempt to create a missing directory
LocationPassesExisting(d) == d.exists /\ d.writable

\* the try block of the loop body reaches `selectedLocation = location`:
\* neither mkdirSync (run when the directory is missing) nor accessSync throws
LocationPasses(d) == (d.exists \/ d.creatable) /\ d.writable

\* for (const location of locations) { try { ...; break } catch { } }, from
\* index i on: the selected location, or ":memory:" when selectedLocation
\* stays null
RECURSIVE TryLocations(_, _)
TryLocations(dirs, i) ==
    IF i > Len(Locations) THEN ":memory:"
    ELSE IF LocationPasses(dirs[Locations[i]]) THEN Locations[i]
    ELSE TryLocations(dirs, i + 1)

\* a selection that probes the locations whatever the environment says
SelectDatabasePathProbed(e) == TryLocations(e.dirs, 1)

\* DATABASE_PATH: `if (process.env.DATABASE_PATH)` takes a non-empty override
\* as it is
SelectDatabasePath(e) ==
    IF e.override \notin {undefined, ""} THEN e.override
    ELSE TryLocations(e.dirs, 1)

\* the directories startup runs mkdirSync on: those of the locations the loop
\* reached, and (lines 66-77) the one of the selected file
Reached(e, selected) ==
    LET tried == IF e.override \notin {undefined, ""} THEN {}
                 ELSE { Locations[i] : i \in { j \in 1..Len(Locations) :
                            \A k \in 1..(j - 1) : Locations[k] # selected } }
    IN  tried \cup ({selected} \ {":memory:"})

\* the directories after startup: mkdirSync created the missing ones it could
DirsAfter(e, selected) ==
    [ d \in DOMAIN e.dirs |->
        IF d \in Reached(e, selected) /\ ~e.dirs[d].exists /\ e.dirs[d].creatable
        THEN [e.dirs[d] EXCEPT !.exists = TRUE]
        ELSE e.dirs[d] ]

----------------------------------------------------------------------------
(* Schema Initializer (server.js lines 90-163 and 722-786, part_004 lines  *)
(* 33-122).  Its result is the set of tables afterwards and whether a      *)
(* statement failed.                                                       *)

\* the CREATE TABLE statements, in the order they are run
TableOrder ==
    << "goals", "tasks", "resources", "focus_sessions", "learning_patterns" >>

\* CREATE TABLE t (...): fails when the table exists
CreateTablePlain(s, t) ==
    [ tables |-> s.tables \cup {t}, err |-> s.err \/ t \in s.tables ]

\* CREATE TABLE IF NOT EXISTS t (...): a table that exists is left as it is
CreateTable(s, t) ==
    [ tables |-> s.tables \cup {t}, err |-> s.err ]

RECURSIVE CreateTables(_, _)
CreateTables(s, i) ==
    IF i > Len(TableOrder) THEN s
    ELSE CreateTables(CreateTable(s, TableOrder[i]), i + 1)

\* initializeTables(db, callback) on a connection whose store has the
\* given tables; the PRAGMAs change no table
InitializeTables(tables) ==
    CreateTables([ tables |-> tables, err |-> FALSE ], 1)

\* The initializer runs against the file store: initializeDatabase at
\* startup, or db.serialize on the shared connection.  No statement of it
\* reads or writes a row.
RunInitializeTables ==
    /\ Idle
    /\ boot.runs < 2
    /\ schema' = InitializeTables(schema).tables
    /\ boot' = [boot EXCEPT !.runs = @ + 1, !.init = "done",
                            !.err = InitializeTables(schema).err]
    /\ UNCHANGED <<target, goals, tasks, seq, now, req, resp, env, issued,
                   call, ui>>

----------------------------------------------------------------------------
(* Full server, per-request connections (server.js lines 1-672) *)

\* getDatabaseConnection: the store a handler's connection reads and writes.
\* ":memory:" is a fresh, empty in-memory database with the schema created,
\* private to the connection; it is also what the handler gets when opening
\* the file fails (tryInMemory).
ConnectionStore(openOk) ==
    IF target = ":memory:" \/ ~openOk THEN ":memory:" ELSE "file"

\* the connection getDatabaseConnection resolves with: every branch runs
\* initializeTables on it before resolve(db)
ProvidedConnection(openOk) ==
    [NoCall EXCEPT
        !.conn = IF ConnectionStore(openOk) = "file" THEN "file" ELSE "memory",
        !.tables = IF ConnectionStore(openOk) = "file"
                   THEN InitializeTables(schema).tables
                   ELSE InitializeTables({}).tables]

\* POST /api/goals, the storage result arriving before the 5000 ms watchdog
PostGoal(p, openOk) ==
    /\ Idle
    /\ Len(goals) < MaxGoals
    /\ Len(issued) < MaxGoals
    /\ req' = [NoReq EXCEPT !.server = "full", !.method = "POST",
                            !.path = <<"api", "goals">>, !.body = p,
                            !.db = IF openOk THEN "ok" ELSE "open_failed"]
    /\ IF ~GoalConstraintOk(p)
       THEN /\ resp' = [NoResp EXCEPT !.status = 500, !.kind = "error",
                                      !.keys = {"error", "queryTime"},
                                      !.dbOpened = TRUE]
            /\ UNCHANGED <<goals, seq, issued>>
       ELSE IF ConnectionStore(openOk) = "file"
       THEN /\ goals' = Append(goals, InsertGoalRow(p, seq, now))
            /\ seq' = seq + 1
            /\ issued' = Append(issued, seq + 1)
            /\ resp' = [NoResp EXCEPT !.status = 200, !.kind = "created",
                                      !.keys = {"id", "message"},
                                      !.id = seq + 1, !.dbOpened = TRUE]
       ELSE /\ resp' = [NoResp EXCEPT !.status = 200, !.kind = "created",
                                      !.keys = {"id", "message"},
                                      !.id = InsertGoalRow(p, 0, now).id,
                                      !.dbOpened = TRUE]
            /\ issued' = Append(issued, InsertGoalRow(p, 0, now).id)
            /\ UNCHANGED <<goals, seq>>
    /\ schema' = IF ConnectionStore(openOk) = "file"
                 THEN InitializeTables(schema).tables ELSE schema
    /\ call' = ProvidedConnection(openOk)
    /\ UNCHANGED <<target, tasks, now, env, boot, ui>>

\* GET /api/goals, the storage result arriving before the 5000 ms watchdog
GetGoals(openOk) ==
    /\ Idle
    /\ req' = [NoReq EXCEPT !.server = "full", !.method = "GET",
                            !.path = <<"api", "goals">>,
                            !.db = IF openOk THEN "ok" ELSE "open_failed"]
    /\ \E rows \in SelectGoals(IF ConnectionStore(openOk) = "file"
                               THEN goals ELSE <<>>) :
          resp' = [NoResp EXCEPT !.status = 200, !.kind = "rows",
                                 !.rows = rows, !.dbOpened = TRUE]
    /\ schema' = IF ConnectionStore(openOk) = "file"
                 THEN InitializeTables(schema).tables ELSE schema
    /\ call' = ProvidedConnection(openOk)
    /\ UNCHANGED <<target, goals, tasks, seq, now, env, issued, boot, ui>>

\* res.json of a health handler of the full server: always status 200
FullHealthReply(health, database) ==
    [NoResp EXCEPT !.status = 200, !.kind = "health",
                   !.keys = {"status", "timestamp", "version", "database"},
                   !.health = health, !.database = database,
                   !.dbOpened = TRUE]

\* GET /api/health (server.js lines 451-503).  db is what the storage did:
\* "ok"; "open_failed", the file did not open and getDatabaseConnection fell
\* back to a fresh in-memory database, which answers SELECT 1;
\* "memory_failed", the in-memory database did not open either and the
\* Promise rejected; "query_failed", SELECT 1 failed.
GetHealth(db) ==
    /\ Idle
    /\ req' = [NoReq EXCEPT !.server = "full", !.method = "GET",
                            !.path = <<"api", "health">>, !.db = db]
    /\ resp' = CASE db = "memory_failed" ->
                      FullHealthReply("degraded", "connection_failed")
                 [] db = "query_failed" -> FullHealthReply("degraded", "error")
                 [] OTHER -> FullHealthReply("healthy", "connected")
    /\ UNCHANGED <<target, goals, tasks, seq, now, env, issued, call,
                   schema, boot, ui>>

\* GET /api/health (src/unnamed/part_004 lines 373-473): the first response
\* sent.  This variant's DATABASE_PATH is always a file.  The probe opens DATABASE_PATH read-only; db = "slow" is a probe
\* that has not resolved after 3000 ms, when databaseTimeout fires, clears
\* the 5000 ms timer and answers in its place.
GetHealthTimed(db) ==
    /\ Idle
    /\ target # ":memory:"
    /\ req' = [NoReq EXCEPT !.server = "full", !.method = "GET",
                            !.path = <<"api", "health">>, !.db = db]
    /\ resp' = CASE db = "ok" -> FullHealthReply("healthy", "connected")
                 [] db = "slow" -> FullHealthReply("healthy", "check_timeout")
                 [] OTHER -> FullHealthReply("degraded", "error")
    /\ UNCHANGED <<target, goals, tasks, seq, now, env, issued, call,
                   schema, boot, ui>>

\* the client has the response and no callback of the handler is
\* outstanding: the exchange is over
Complete ==
    /\ ~Idle
    /\ resp # NoResp
    /\ call.query # "running"
    /\ req' = NoReq
    /\ resp' = NoResp
    /\ call' = NoCall
    /\ UNCHANGED <<target, goals, tasks, seq, now, env, issued, schema, boot,
                   ui>>

\* the process exits and is started again on the same machine: the file
\* store stays, everything the process held in memory is gone
Restart ==
    /\ req' = NoReq
    /\ resp' = NoResp
    /\ issued' = <<>>
    /\ call' = NoCall
    /\ UNCHANGED <<target, goals, tasks, seq, now, env, schema, boot, ui>>

\* one second passes
Tick ==
    /\ now < MaxClock
    /\ now' = now + 1
    /\ UNCHANGED <<target, goals, tasks, seq, req, resp, env, issued, call,
                   schema, boot, ui>>

----------------------------------------------------------------------------
(* Full server, shared connection (server.js lines 673-992).  db is the    *)
(* outcome of the query on the shared connection: "ok" or "query_failed".  *)

\* the JSON error body { error: err.message } with status 500
QueryError(opened) ==
    [NoResp EXCEPT !.status = 500, !.kind = "error", !.keys = {"error"},
                   !.dbOpened = opened]

\* res.json(rows)
RowsReply(rows, opened) ==
    [NoResp EXCEPT !.status = 200, !.kind = "rows", !.rows = rows,
                   !.dbOpened = opened]

\* a reply that treats the empty result as not found
NextTaskReplyNotFound(row, opened) ==
    IF row = <<>>
    THEN [NoResp EXCEPT !.status = 404, !.kind = "error",
                        !.keys = {"error"}, !.dbOpened = opened]
    ELSE [NoResp EXCEPT !.status = 200, !.kind = "row", !.rows = row,
                        !.dbOpened = opened]

\* res.json(row || { message: 'No pending tasks found' })
NextTaskReply(row, opened) ==
    IF row = <<>>
    THEN [NoResp EXCEPT !.status = 200, !.kind = "sentinel",
                        !.keys = {"message"}, !.dbOpened = opened]
    ELSE [NoResp EXCEPT !.status = 200, !.kind = "row", !.rows = row,
                        !.dbOpened = opened]

\* res.json({ summary, tasks })
SummaryReply(summary, counts, opened) ==
    [NoResp EXCEPT !.status = 200, !.kind = "summary",
                   !.keys = {"summary", "tasks"}, !.summary = summary,
                   !.tasks = counts, !.dbOpened = opened]

\* app.get('/api/tasks')
TasksResponses(goal_id, status, db) ==
    IF db # "ok" THEN { QueryError(FALSE) }
    ELSE { RowsReply(rows, FALSE) : rows \in SelectTasks(tasks, goal_id, status) }

\* app.get('/api/focus/next-task')
NextTaskResponses(db) ==
    IF db # "ok" THEN { QueryError(FALSE) }
    ELSE { NextTaskReply(row, FALSE) : row \in SelectNextTask(goals, tasks) }

\* app.get('/api/progress/summary')
SummaryResponses(db) ==
    IF db # "ok" THEN { QueryError(FALSE) }
    ELSE { SummaryReply(SelectSummary(goals), SelectTaskCounts(tasks), FALSE) }

GetTasks(goal_id, status, db) ==
    /\ Idle
    /\ req' = [NoReq EXCEPT !.server = "full", !.method = "GET",
                            !.path = <<"api", "tasks">>,
                            !.goal_id = goal_id, !.status = status,
                            !.db = db]
    /\ resp' \in TasksResponses(goal_id, status, db)
    /\ UNCHANGED <<target, goals, tasks, seq, now, env, issued, call,
                   schema, boot, ui>>

GetNextTask(db) ==
    /\ Idle
    /\ req' = [NoReq EXCEPT !.server = "full", !.method = "GET",
                            !.path = <<"api", "focus", "next-task">>,
                            !.db = db]
    /\ resp' \in NextTaskResponses(db)
    /\ UNCHANGED <<target, goals, tasks, seq, now, env, issued, call,
                   schema, boot, ui>>

GetProgressSummary(db) ==
    /\ Idle
    /\ req' = [NoReq EXCEPT !.server = "full", !.method = "GET",
                            !.path = <<"api", "progress", "summary">>,
                            !.db = db]
    /\ resp' \in SummaryResponses(db)
    /\ UNCHANGED <<target, goals, tasks, seq, now, env, issued, call,
                   schema, boot, ui>>

\* GET /api/health (server.js lines 949-971), on the shared connection; this
\* variant's DATABASE_PATH is always a file
GetHealthShared(db) ==
    /\ Idle
    /\ target # ":memory:"
    /\ req' = [NoReq EXCEPT !.server = "full", !.method = "GET",
                            !.path = <<"api", "health">>, !.db = db]
    /\ resp' = [ (IF db = "ok" THEN FullHealthReply("healthy", "connected")
                  ELSE FullHealthReply("degraded", "error"))
                 EXCEPT !.dbOpened = FALSE ]
    /\ UNCHANGED <<target, goals, tasks, seq, now, env, issued, call,
                   schema, boot, ui>>

----------------------------------------------------------------------------
(* Read-only gateway (src/unnamed/part_001).  Every handler opens its own  *)
(* OPEN_READONLY connection to the file; db is the outcome: "ok",          *)
(* "open_failed" or "query_failed".                                        *)

Methods == {"GET", "HEAD", "POST", "PUT", "PATCH", "DELETE", "OPTIONS"}

\* request paths, as their segments
GatewayPaths ==
    { <<"api", "goals">>, <<"api", "goals", "1">>, <<"api", "tasks">>,
      <<"api", "focus", "next-task">>, <<"api", "progress", "summary">>,
      <<"api", "health">> }

\* the mount paths of the write-blocking middleware
GuardedPrefixes ==
    { <<"api", "goals">>, <<"api", "tasks">>, <<"api", "focus">>,
      <<"api", "progress">> }

\* app.use(paths, fn) runs fn when a mount path is a prefix of the request
\* path at a segment boundary
Mounted(path) ==
    \E m \in GuardedPrefixes :
        Len(m) <= Len(path) /\ SubSeq(path, 1, Len(m)) = m

\* the middleware's rejection
ReadOnlyRejection ==
    [NoResp EXCEPT !.status = 403, !.kind = "error",
                   !.keys = {"error", "message", "hint"}]

\* a write block that rejects POST only
WriteBlockedPostOnly(method, path) == Mounted(path) /\ method = "POST"

\* does the write-blocking middleware end the request?
WriteBlocked(method, path) == Mounted(path) /\ method # "GET"

\* the Promise of the gateway's getDatabaseConnection rejected:
\* { error: 'Database connection failed' } with status 500
ConnectionFailed ==
    [NoResp EXCEPT !.status = 500, !.kind = "error", !.keys = {"error"},
                   !.dbOpened = TRUE]

\* a health handler that answers 503 when the storage is not there
HealthReplyUnavailable(db) ==
    [NoResp EXCEPT !.status = IF db = "ok" THEN 200 ELSE 503,
                   !.kind = "health",
                   !.keys = {"status", "mode", "database"},
                   !.health = IF db = "ok" THEN "healthy" ELSE "degraded",
                   !.dbOpened = TRUE]

\* res.json of the health handler: always status 200
HealthReply(db) ==
    [NoResp EXCEPT !.status = 200, !.kind = "health",
                   !.keys = IF db = "ok"
                            THEN {"status", "mode", "database", "app"}
                            ELSE {"status", "mode", "database", "error"},
                   !.health = IF db = "ok" THEN "healthy" ELSE "degraded",
                   !.database = CASE db = "ok" -> "connected"
                                  [] db = "open_failed" -> "connection_failed"
                                  [] OTHER -> "error",
                   !.dbOpened = TRUE]

\* the app.get routes, in order; app.get also serves HEAD
GatewayRoute(path, goal_id, status, db) ==
    CASE path = <<"api", "health">> -> { HealthReply(db) }
      [] path \notin { <<"api", "goals">>, <<"api", "tasks">>,
                       <<"api", "focus", "next-task">>,
                       <<"api", "progress", "summary">> } ->
            \* app.get('*'): index.html
            { [NoResp EXCEPT !.status = 200, !.kind = "html"] }
      [] db = "open_failed" -> { ConnectionFailed }
      [] db = "query_failed" -> { QueryError(TRUE) }
      [] path = <<"api", "goals">> ->
            { RowsReply(rows, TRUE) : rows \in SelectGoals(goals) }
      [] path = <<"api", "tasks">> ->
            { RowsReply(rows, TRUE) : rows \in SelectTasks(tasks, goal_id, status) }
      [] path = <<"api", "focus", "next-task">> ->
            { NextTaskReply(row, TRUE) : row \in SelectNextTask(goals, tasks) }
      [] OTHER ->
            { SummaryReply(SelectSummary(goals), SelectTaskCounts(tasks), TRUE) }

\* The middleware chain and the routes, in the order they are registered:
\* cors() ends every OPTIONS request with 204 and an empty body (its default
\* preflightContinue: false); bodyParser.json() fails a request whose JSON
\* body does not parse, which Express answers with 400 and no JSON body;
\* express.static passes on every path of the model (none names a file
\* under public/); then the write-blocking middleware; then the routes; a
\* request no route matches gets Express's 404.
GatewayResponses(method, path, bodyOk, goal_id, status, db) ==
    IF method = "OPTIONS"
    THEN { [NoResp EXCEPT !.status = 204, !.kind = "preflight"] }
    ELSE IF ~bodyOk
    THEN { [NoResp EXCEPT !.status = 400, !.kind = "html"] }
    ELSE IF WriteBlocked(method, path)
    THEN { ReadOnlyRejection }
    ELSE IF method \in {"GET", "HEAD"}
    THEN GatewayRoute(path, goal_id, status, db)
    ELSE { [NoResp EXCEPT !.status = 404, !.kind = "html"] }

Gateway(method, path, bodyOk, goal_id, status, db) ==
    /\ Idle
    /\ req' = [NoReq EXCEPT !.server = "gateway", !.method = method,
                            !.path = path, !.bodyOk = bodyOk,
                            !.goal_id = goal_id, !.status = status,
                            !.db = db]
    /\ resp' \in GatewayResponses(method, path, bodyOk, goal_id, status, db)
    /\ UNCHANGED <<target, goals, tasks, seq, now, env, issued, call,
                   schema, boot, ui>>

----------------------------------------------------------------------------
(* The goals API of the full server on a file store that opens *)

Init ==
    /\ target = "file"
    /\ goals = <<>>
    /\ tasks = <<>>
    /\ seq = 0
    /\ now = 0
    /\ req = NoReq
    /\ resp = NoResp
    /\ env = NoEnv
    /\ issued = <<>>
    /\ call = NoCall
    /\ ui = NoUi
    /\ schema = Tables
    /\ boot = Booted

Next ==
    \/ \E p \in GoalPayloads : PostGoal(p, TRUE)
    \/ GetGoals(TRUE)
    \/ Complete
    \/ Tick

Spec == Init /\ [][Next]_vars

----------------------------------------------------------------------------
(* The goals API of the full server on any resolved target, the file open  *)
(* failing or not                                                          *)

InitAnyTarget ==
    /\ target \in StorageTargets
    /\ goals = <<>>
    /\ tasks = <<>>
    /\ seq = 0
    /\ now = 0
    /\ req = NoReq
    /\ resp = NoResp
    /\ env = NoEnv
    /\ issued = <<>>
    /\ call = NoCall
    /\ ui = NoUi
    /\ schema = Tables
    /\ boot = Booted

NextAnyTarget ==
    \/ \E p \in GoalPayloads, openOk \in BOOLEAN : PostGoal(p, openOk)
    \/ \E openOk \in BOOLEAN : GetGoals(openOk)
    \/ Complete
    \/ Restart
    \/ Tick

SpecAnyTarget == InitAnyTarget /\ [][NextAnyTarget]_vars

----------------------------------------------------------------------------
(* The gateway beside a full server that writes the file it reads *)

InitGateway ==
    /\ target = "file"
    /\ goals = <<>>
    /\ tasks = <<>>
    /\ seq = 0
    /\ now = 0
    /\ req = NoReq
    /\ resp = NoResp
    /\ env = NoEnv
    /\ issued = <<>>
    /\ call = NoCall
    /\ ui = NoUi
    /\ schema = Tables
    /\ boot = Booted

NextGateway ==
    \/ \E p \in { q \in GoalPayloads : q.title = "a" /\ q.category = undefined } :
          PostGoal(p, TRUE)
    \/ \E m \in Methods, path \in GatewayPaths, bodyOk \in BOOLEAN,
          db \in {"ok", "open_failed", "query_failed"} :
            Gateway(m, path, bodyOk, undefined, undefined, db)
    \/ Complete

SpecGateway == InitGateway /\ [][NextGateway]_vars

----------------------------------------------------------------------------
(* Stores the file may hold when a request arrives.  No endpoint inserts a *)
(* task or changes a goal's progress, so the rows other than the goals     *)
(* POST /api/goals creates are rows written into the file directly.  Rows  *)
(* are never deleted, so the ids are 1..n.                                 *)

GoalRow(i, priority, progress, category) ==
    [ id |-> i, title |-> "a", description |-> NULL, category |-> category,
      target_date |-> NULL, priority |-> priority, progress |-> progress,
      created_at |-> 0, updated_at |-> 0 ]

TaskRow(i, goal_id, status, priority, due_date) ==
    [ id |-> i, goal_id |-> goal_id, title |-> "a", status |-> status,
      priority |-> priority, due_date |-> due_date ]

\* the goals tables of at most MaxGoals rows with columns from the given sets
StoredGoals(priorities, progresses, categories) ==
    UNION { { [i \in 1..n |-> GoalRow(i, f[i][1], f[i][2], f[i][3])] :
                f \in [1..n -> priorities \X progresses \X categories] } :
            n \in 0..MaxGoals }

\* the tasks tables of at most MaxTasks rows with columns from the given sets
StoredTasks(goalIds, statuses, priorities, dueDates) ==
    UNION { { [i \in 1..n |-> TaskRow(i, f[i][1], f[i][2], f[i][3], f[i][4])] :
                f \in [1..n -> goalIds \X statuses \X priorities \X dueDates] } :
            n \in 0..MaxTasks }

\* goal_id values: NULL, or an id that names a goal when the table is full
GoalIds == {NullInt} \cup (1..MaxGoals)

----------------------------------------------------------------------------
(* The focus engine of both servers over a stored set of goals and tasks *)

InitFocus ==
    /\ target = "file"
    /\ goals \in StoredGoals({"high", "medium", NULL}, {0}, {NULL})
    /\ tasks \in StoredTasks(GoalIds, {"pending", "completed"}, {"high", "low"},
                             {NULL, "2025-01-01", "2025-01-10"})
    /\ seq = Len(goals)
    /\ now = 0
    /\ req = NoReq
    /\ resp = NoResp
    /\ env = NoEnv
    /\ issued = <<>>
    /\ call = NoCall
    /\ ui = NoUi
    /\ schema = Tables
    /\ boot = Booted

NextFocus ==
    \/ \E db \in {"ok", "query_failed"} : GetNextTask(db)
    \/ \E db \in {"ok", "open_failed", "query_failed"} :
          Gateway("GET", <<"api", "focus", "next-task">>, TRUE,
                  undefined, undefined, db)
    \/ Complete

SpecFocus == InitFocus /\ [][NextFocus]_vars

----------------------------------------------------------------------------
(* The task listing of both servers over a stored set of tasks *)

InitTasks ==
    /\ target = "file"
    /\ goals = <<>>
    /\ tasks \in StoredTasks(GoalIds, {"pending", "completed"},
                             {"high", "medium"}, {NULL})
    /\ seq = 0
    /\ now = 0
    /\ req = NoReq
    /\ resp = NoResp
    /\ env = NoEnv
    /\ issued = <<>>
    /\ call = NoCall
    /\ ui = NoUi
    /\ schema = Tables
    /\ boot = Booted

\* req.query.goal_id and req.query.status
GoalIdParams == {undefined, "", "1", "2"}
StatusParams == {undefined, "", "pending"}

NextTasks ==
    \/ \E g \in GoalIdParams, s \in StatusParams, db \in {"ok", "query_failed"} :
          GetTasks(g, s, db)
    \/ \E g \in GoalIdParams, s \in StatusParams,
          db \in {"ok", "open_failed", "query_failed"} :
            Gateway("GET", <<"api", "tasks">>, TRUE, g, s, db)
    \/ Complete

SpecTasks == InitTasks /\ [][NextTasks]_vars

----------------------------------------------------------------------------
(* The progress summary of both servers over a stored set of goals and tasks *)

InitSummary ==
    /\ target = "file"
    /\ goals \in StoredGoals({"medium"}, {0, 50, 100}, {NULL, "work", "health"})
    /\ tasks \in StoredTasks({NullInt}, {"pending", "completed", NULL},
                             {"medium"}, {NULL})
    /\ seq = Len(goals)
    /\ now = 0
    /\ req = NoReq
    /\ resp = NoResp
    /\ env = NoEnv
    /\ issued = <<>>
    /\ call = NoCall
    /\ ui = NoUi
    /\ schema = Tables
    /\ boot = Booted

NextSummary ==
    \/ \E db \in {"ok", "query_failed"} : GetProgressSummary(db)
    \/ \E db \in {"ok", "open_failed", "query_failed"} :
          Gateway("GET", <<"api", "progress", "summary">>, TRUE,
                  undefined, undefined, db)
    \/ Complete

SpecSummary == InitSummary /\ [][NextSummary]_vars

----------------------------------------------------------------------------
(* Handlers step by step: the storage call is issued, time passes, the     *)
(* watchdog timer fires or the storage callback runs.  A timer that is due *)
(* runs before more time passes; the order of a due timer and a callback   *)
(* that arrives at the same time is the event loop's.                      *)

StoragePaths ==
    { <<"api", "goals">>, <<"api", "tasks">>,
      <<"api", "focus", "next-task">>, <<"api", "progress", "summary">> }

\* the 504 of the watchdog
TimeoutReply ==
    [NoResp EXCEPT !.status = 504, !.kind = "error",
                   !.keys = {"error", "message"}, !.dbOpened = TRUE]

\* GET and POST /api/goals (server.js lines 265-346) up to the storage call:
\* the connection is there, setTimeout(..., 5000) arms the watchdog, then
\* db.all / db.run is issued
BeginWatched(method, p) ==
    /\ Idle
    /\ method = "POST" => Len(goals) < MaxGoals /\ Len(issued) < MaxGoals
    /\ req' = [NoReq EXCEPT !.server = "full", !.method = method,
                            !.path = <<"api", "goals">>, !.body = p,
                            !.db = "pending"]
    /\ call' = [NoCall EXCEPT !.query = "running", !.timer = "armed",
                              !.conn = "file", !.tables = Tables]
    /\ UNCHANGED <<target, goals, tasks, seq, now, resp, env, issued,
                   schema, boot, ui>>

\* The handlers that issue their storage call without a timer: tasks, focus
\* and summary of the full server (server.js lines 847-946) and the four
\* handlers of the gateway (part_001 lines 44-183)
BeginUnwatched(server, path) ==
    /\ Idle
    /\ server = "full" => path # <<"api", "goals">>
    /\ req' = [NoReq EXCEPT !.server = server, !.method = "GET",
                            !.path = path, !.db = "pending"]
    /\ call' = [NoCall EXCEPT !.query = "running",
                              !.conn = IF server = "gateway" THEN "file"
                                       ELSE "none",
                              !.tables = IF server = "gateway" THEN Tables
                                         ELSE {}]
    /\ UNCHANGED <<target, goals, tasks, seq, now, resp, env, issued,
                   schema, boot, ui>>

\* 5000 ms have passed since the call was issued (waited 1), then more
\* (waited 2)
Elapse ==
    /\ call.query = "running"
    /\ call.waited < 2
    /\ call.waited = 1 => call.timer # "armed" /\ call.dbTimer # "armed"
    /\ call' = [call EXCEPT !.waited = @ + 1]
    /\ UNCHANGED <<target, goals, tasks, seq, now, req, resp, env, issued,
                   schema, boot, ui>>

\* the setTimeout callback: the storage callback has not run (it would have
\* cleared the timer), so this is the first response.  With a connection
\* of its own the handler calls db.close() first (server.js lines 274, 314).
WatchdogFires ==
    /\ call.timer = "armed"
    /\ call.waited = 1
    /\ call' = [call EXCEPT !.timer = "fired", !.sends = @ + 1,
                            !.closes = IF call.conn = "none" THEN @ ELSE @ + 1]
    /\ resp' = TimeoutReply
    /\ UNCHANGED <<target, goals, tasks, seq, now, req, env, issued,
                   schema, boot, ui>>

\* what the storage callback sends when nothing has been sent yet
CallbackReplies(r, outcome) ==
    IF r.server = "gateway"
    THEN GatewayRoute(r.path, undefined, undefined,
                      IF outcome = "ok" THEN "ok" ELSE "query_failed")
    ELSE IF r.path = <<"api", "tasks">>
    THEN TasksResponses(undefined, undefined, outcome)
    ELSE IF r.path = <<"api", "focus", "next-task">>
    THEN NextTaskResponses(outcome)
    ELSE IF r.path = <<"api", "progress", "summary">>
    THEN SummaryResponses(outcome)
    ELSE IF outcome # "ok"
    THEN { [NoResp EXCEPT !.status = 500, !.kind = "error",
                          !.keys = {"error", "queryTime"}, !.dbOpened = TRUE] }
    ELSE IF r.method = "POST"
    THEN { [NoResp EXCEPT !.status = 200, !.kind = "created",
                          !.keys = {"id", "message"}, !.id = seq + 1,
                          !.dbOpened = TRUE] }
    ELSE { [NoResp EXCEPT !.status = 200, !.kind = "rows", !.rows = rows,
                          !.dbOpened = TRUE] : rows \in SelectGoals(goals) }

\* The storage callback runs with its outcome: "ok", "query_failed", or
\* "busy", the SQLITE_BUSY error of a write that waited the 5000 ms
\* busyTimeout for the write lock.  It clears the timer, closes the
\* connection when it has one of its own, and sends its response with
\* res.json whether or not the watchdog has answered; when it has, res.json
\* throws ERR_HTTP_HEADERS_SENT out of the callback and the response stays
\* the watchdog's.  An INSERT that succeeded is stored either way.
QueryCallback(outcome) ==
    /\ call.query = "running"
    /\ outcome = "busy" => req.method = "POST" /\ call.waited >= 1
    /\ call' = [call EXCEPT !.query = "returned",
                            !.timer = IF @ = "armed" THEN "cleared" ELSE @,
                            !.closes = IF call.conn = "none" THEN @ ELSE @ + 1,
                            !.sends = @ + 1,
                            !.threw = (resp # NoResp)]
    /\ req' = [req EXCEPT !.db = outcome]
    /\ IF req.method = "POST" /\ outcome = "ok"
       THEN /\ goals' = Append(goals, InsertGoalRow(req.body, seq, now))
            /\ seq' = seq + 1
       ELSE UNCHANGED <<goals, seq>>
    /\ IF resp # NoResp
       THEN UNCHANGED <<resp, issued>>
       ELSE /\ resp' \in CallbackReplies(req, outcome)
            /\ issued' = IF req.method = "POST" /\ outcome = "ok"
                         THEN Append(issued, seq + 1) ELSE issued
    /\ UNCHANGED <<target, tasks, now, env, schema, boot, ui>>

InitWatchdog ==
    /\ target = "file"
    /\ goals = <<>>
    /\ tasks \in StoredTasks({NullInt}, {"pending"}, {"high"}, {NULL})
    /\ seq = 0
    /\ now = 0
    /\ req = NoReq
    /\ resp = NoResp
    /\ env = NoEnv
    /\ issued = <<>>
    /\ call = NoCall
    /\ ui = NoUi
    /\ schema = Tables
    /\ boot = Booted

NextWatchdog ==
    \/ \E method \in {"GET", "POST"},
          p \in { q \in GoalPayloads : q.title = "a" /\ q.category = undefined } :
            BeginWatched(method, IF method = "POST" THEN p ELSE NoReq.body)
    \/ \E server \in {"full", "gateway"}, path \in StoragePaths :
          BeginUnwatched(server, path)
    \/ Elapse
    \/ WatchdogFires
    \/ \E outcome \in {"ok", "query_failed", "busy"} : QueryCallback(outcome)
    \/ Complete

SpecWatchdog == InitWatchdog /\ [][NextWatchdog]_vars

----------------------------------------------------------------------------
(* Failing handlers of the full server with per-request connections *)

\* the catch block of the goals handlers: getDatabaseConnection rejected
ConnectionError ==
    [NoResp EXCEPT !.status = 500, !.kind = "error",
                   !.keys = {"error", "message"}]

\* Express's default error handler: status 500 and an HTML page with the
\* stack trace, no JSON
UncaughtReply ==
    [NoResp EXCEPT !.status = 500, !.kind = "html"]

\* GET and POST /api/goals when the connection cannot be had
\* ("memory_failed": the file and the in-memory fallback both fail to open)
\* or the query fails on an open connection
GoalsFail(method, db) ==
    /\ Idle
    /\ req' = [NoReq EXCEPT !.server = "full", !.method = method,
                            !.path = <<"api", "goals">>, !.db = db]
    /\ resp' = IF db = "memory_failed" THEN ConnectionError
               ELSE [NoResp EXCEPT !.status = 500, !.kind = "error",
                                   !.keys = {"error", "queryTime"},
                                   !.dbOpened = TRUE]
    /\ UNCHANGED <<target, goals, tasks, seq, now, env, issued, call,
                   schema, boot, ui>>

\* GET /api/tasks, /api/focus/next-task and /api/progress/summary of this
\* variant (server.js lines 349-448, part_004 lines 271-370): the handler
\* calls db.all / db.get, but no db is in scope, so the call throws a
\* ReferenceError inside the synchronous handler and Express answers
GetWithoutConnection(path) ==
    /\ Idle
    /\ path \in StoragePaths \ { <<"api", "goals">> }
    /\ req' = [NoReq EXCEPT !.server = "full", !.method = "GET",
                            !.path = path, !.db = "undeclared"]
    /\ resp' = UncaughtReply
    /\ UNCHANGED <<target, goals, tasks, seq, now, env, issued, call,
                   schema, boot, ui>>

NextErrors ==
    \/ NextWatchdog
    \/ \E method \in {"GET", "POST"}, db \in {"memory_failed", "query_failed"} :
          GoalsFail(method, db)
    \/ \E path \in StoragePaths : GetWithoutConnection(path)

SpecErrors == InitWatchdog /\ [][NextErrors]_vars

----------------------------------------------------------------------------
(* The GET surface of the full server with the shared connection           *)
(* (server.js lines 791-946) beside the gateway's, on the same file        *)

\* app.get('/api/goals') on the shared connection, the result arriving
\* before the watchdog
GoalsResponses(db) ==
    IF db # "ok"
    THEN { [NoResp EXCEPT !.status = 500, !.kind = "error",
                          !.keys = {"error", "queryTime"}] }
    ELSE { RowsReply(rows, FALSE) : rows \in SelectGoals(goals) }

\* a full server whose task listing drops the status filter
SharedRouteUnfiltered(path, goal_id, status, db) ==
    CASE path = <<"api", "goals">> -> GoalsResponses(db)
      [] path = <<"api", "tasks">> -> TasksResponses(goal_id, undefined, db)
      [] path = <<"api", "focus", "next-task">> -> NextTaskResponses(db)
      [] OTHER -> SummaryResponses(db)

\* the four storage routes of the full server
SharedRoute(path, goal_id, status, db) ==
    CASE path = <<"api", "goals">> -> GoalsResponses(db)
      [] path = <<"api", "tasks">> -> TasksResponses(goal_id, status, db)
      [] path = <<"api", "focus", "next-task">> -> NextTaskResponses(db)
      [] OTHER -> SummaryResponses(db)

GetShared(path, goal_id, status, db) ==
    /\ Idle
    /\ boot.listening
    /\ boot.variant # "per-request"
    \* the shared connection runs the query after the statements queued
    \* before it, which are those of db.serialize at startup
    /\ boot.init = "done"
    /\ path \in StoragePaths
    /\ req' = [NoReq EXCEPT !.server = "full", !.method = "GET",
                            !.path = path, !.goal_id = goal_id,
                            !.status = status, !.db = db]
    /\ resp' \in SharedRoute(path, goal_id, status, db)
    /\ UNCHANGED <<target, goals, tasks, seq, now, env, issued, call,
                   schema, boot, ui>>

InitSurface ==
    /\ target = "file"
    /\ goals \in StoredGoals({"high", "medium"}, {0}, {NULL})
    /\ tasks \in StoredTasks({NullInt, 1}, {"pending", "completed"},
                             {"high"}, {NULL})
    /\ seq = Len(goals)
    /\ now = 0
    /\ req = NoReq
    /\ resp = NoResp
    /\ env = NoEnv
    /\ issued = <<>>
    /\ call = NoCall
    /\ ui = NoUi
    /\ schema = Tables
    /\ boot = Booted

\* GET requests to the storage routes; the filters go with /api/tasks, the
\* other routes do not read the query
SurfaceRequests ==
    { [path |-> path, goal_id |-> g, status |-> st] :
        path \in { <<"api", "tasks">> }, g \in GoalIdParams, st \in StatusParams }
    \cup { [path |-> path, goal_id |-> undefined, status |-> undefined] :
             path \in StoragePaths }

NextSurface ==
    \/ \E q \in SurfaceRequests, db \in {"ok", "query_failed"} :
          GetShared(q.path, q.goal_id, q.status, db)
    \/ \E q \in SurfaceRequests, db \in {"ok", "open_failed", "query_failed"} :
          Gateway("GET", q.path, TRUE, q.goal_id, q.status, db)
    \/ Complete

SpecSurface == InitSurface /\ [][NextSurface]_vars

----------------------------------------------------------------------------
(* The tasks endpoints of the full server *)

\* Express's answer to a request no route matches: 404 and an HTML page
NotFoundReply ==
    [NoResp EXCEPT !.status = 404, !.kind = "html"]

\* POST /api/tasks.  The only route registered on /api/tasks is app.get
\* (server.js lines 349 and 847, part_004 line 271), and the catch-all is
\* app.get('*'): no route matches a POST, so no handler runs and nothing
\* is stored
PostTask(p) ==
    /\ Idle
    /\ req' = [NoReq EXCEPT !.server = "full", !.method = "POST",
                            !.path = <<"api", "tasks">>, !.body = p]
    /\ resp' = NotFoundReply
    /\ UNCHANGED <<target, goals, tasks, seq, now, env, issued, call,
                   schema, boot, ui>>

\* JSON bodies of POST /api/tasks
TaskPayloads ==
    { [NoReq.body EXCEPT !.title = t, !.priority = pr] :
        t \in {"t", "u"}, pr \in {undefined, "high"} }

NextTaskApi ==
    \/ \E p \in TaskPayloads : PostTask(p)
    \/ \E g \in GoalIdParams, st \in StatusParams, db \in {"ok", "query_failed"} :
          GetTasks(g, st, db)
    \/ GetWithoutConnection(<<"api", "tasks">>)
    \/ Complete

SpecTaskApi == InitTasks /\ [][NextTaskApi]_vars

----------------------------------------------------------------------------
(* The mock endpoints of the full server (server.js lines 515-659): they   *)
(* answer from literals and the request, after a setTimeout delay, and     *)
(* never take a connection                                                 *)

\* Math.floor(Math.random() * 1000) + 100: the least and the greatest id
MockIds == {100, 1099}

\* app.post('/api/mock/goals')
MockPostGoal(p, mockId) ==
    /\ Idle
    /\ req' = [NoReq EXCEPT !.server = "full", !.method = "POST",
                            !.path = <<"api", "mock", "goals">>, !.body = p]
    /\ resp' = [NoResp EXCEPT !.status = 200, !.kind = "created",
                              !.keys = {"id", "message", "note"},
                              !.id = mockId]
    /\ UNCHANGED <<target, goals, tasks, seq, now, env, issued, call,
                   schema, boot, ui>>

\* app.put('/api/mock/goals/:id')
MockPutGoal(id, updates) ==
    /\ Idle
    /\ req' = [NoReq EXCEPT !.server = "full", !.method = "PUT",
                            !.path = <<"api", "mock", "goals", id>>,
                            !.body = updates]
    /\ resp' = [NoResp EXCEPT !.status = 200, !.kind = "mock",
                              !.keys = {"id", "message", "updates", "note"}]
    /\ UNCHANGED <<target, goals, tasks, seq, now, env, issued, call,
                   schema, boot, ui>>

\* a delete endpoint that deletes the stored goal
MockDeleteGoalStored(id) ==
    /\ Idle
    /\ req' = [NoReq EXCEPT !.server = "full", !.method = "DELETE",
                            !.path = <<"api", "mock", "goals", id>>]
    /\ resp' = [NoResp EXCEPT !.status = 200, !.kind = "mock",
                              !.keys = {"id", "message", "note"}]
    /\ goals' = SelectSeq(goals, LAMBDA g : Decimal[g.id] # id)
    /\ UNCHANGED <<target, tasks, seq, now, env, issued, call, schema, boot,
                   ui>>

\* app.delete('/api/mock/goals/:id')
MockDeleteGoal(id) ==
    /\ Idle
    /\ req' = [NoReq EXCEPT !.server = "full", !.method = "DELETE",
                            !.path = <<"api", "mock", "goals", id>>]
    /\ resp' = [NoResp EXCEPT !.status = 200, !.kind = "mock",
                              !.keys = {"id", "message", "note"}]
    /\ UNCHANGED <<target, goals, tasks, seq, now, env, issued, call,
                   schema, boot, ui>>

\* every endpoint of the full server that is not a GET, on a file store
\* that opens
NextMutations ==
    \/ \E p \in GoalPayloads : PostGoal(p, TRUE)
    \/ GetGoals(TRUE)
    \/ \E p \in { q \in GoalPayloads : q.category = undefined },
          mockId \in MockIds : MockPostGoal(p, mockId)
    \/ \E id \in {"1", "2"},
          updates \in { q \in GoalPayloads :
                          q.title = "a" /\ q.category = undefined } :
            MockPutGoal(id, updates)
    \/ \E id \in {"1", "2"} : MockDeleteGoal(id)
    \/ \E p \in TaskPayloads : PostTask(p)
    \/ Complete
    \/ Tick

SpecMutations == Init /\ [][NextMutations]_vars

----------------------------------------------------------------------------
(* The Schema Initializer on every store it can meet: no table yet, some   *)
(* tables (an initialization that was cut short), or all tables with rows  *)

InitSchema ==
    /\ target = "file"
    /\ schema \in SUBSET Tables
    /\ goals \in IF "goals" \in schema
                 THEN StoredGoals({"high"}, {0}, {NULL}) ELSE { <<>> }
    /\ tasks \in IF "tasks" \in schema
                 THEN StoredTasks({NullInt}, {"pending"}, {"high"}, {NULL})
                 ELSE { <<>> }
    /\ seq = Len(goals)
    /\ now = 0
    /\ req = NoReq
    /\ resp = NoResp
    /\ env = NoEnv
    /\ issued = <<>>
    /\ call = NoCall
    /\ ui = NoUi
    /\ boot = [Booted EXCEPT !.init = "pending"]

NextSchema ==
    \/ RunInitializeTables
    \/ \E p \in { q \in GoalPayloads : q.title = "a" /\ q.category = undefined } :
          PostGoal(p, TRUE)
    \/ GetGoals(TRUE)
    \/ Complete

SpecSchema == InitSchema /\ [][NextSchema]_vars

----------------------------------------------------------------------------
(* The full server whose Connection Provider does not initialize (part_004) *)

\* the answer to a query that names a table the connection does not have:
\* err.message is "SQLITE_ERROR: no such table: goals"
NoSuchTable ==
    [NoResp EXCEPT !.status = 500, !.kind = "error",
                   !.keys = {"error", "queryTime"}, !.dbOpened = TRUE]

\* getDatabaseConnection of part_004 (lines 134-179): an in-memory database
\* when the data directory is not writable or the file does not open, the
\* file otherwise; no branch creates a table.  OPEN_CREATE makes a file
\* that is not there, without tables.
UninitializedConnection(writable, openOk) ==
    IF writable /\ openOk
    THEN [NoCall EXCEPT !.conn = "file", !.tables = schema]
    ELSE [NoCall EXCEPT !.conn = "memory"]

\* GET /api/goals of part_004 (lines 187-224), the storage result arriving
\* before the watchdog
GetGoalsUninitialized(writable, openOk) ==
    /\ Idle
    /\ boot.listening
    /\ boot.variant # "shared"
    /\ target = "file"
    /\ req' = [NoReq EXCEPT !.server = "full", !.method = "GET",
                            !.path = <<"api", "goals">>, !.db = "ok"]
    /\ call' = UninitializedConnection(writable, openOk)
    /\ IF "goals" \notin call'.tables
       THEN resp' = NoSuchTable
       ELSE \E rows \in SelectGoals(goals) :
               resp' = [NoResp EXCEPT !.status = 200, !.kind = "rows",
                                      !.rows = rows, !.dbOpened = TRUE]
    /\ UNCHANGED <<target, goals, tasks, seq, now, env, issued, schema, boot,
                   ui>>

\* the Connection Providers of the two per-request variants on a store
\* whose startup is over
InitProvider ==
    /\ target \in StorageTargets
    /\ goals \in StoredGoals({"high", "medium"}, {0}, {NULL})
    /\ tasks = <<>>
    /\ seq = Len(goals)
    /\ now = 0
    /\ req = NoReq
    /\ resp = NoResp
    /\ env = NoEnv
    /\ issued = <<>>
    /\ call = NoCall
    /\ ui = NoUi
    /\ schema = Tables
    /\ boot = Booted

NextProvider ==
    \/ \E p \in { q \in GoalPayloads : q.title = "a" /\ q.category = undefined },
          openOk \in BOOLEAN : PostGoal(p, openOk)
    \/ \E openOk \in BOOLEAN : GetGoals(openOk)
    \/ \E writable \in BOOLEAN, openOk \in BOOLEAN :
          GetGoalsUninitialized(writable, openOk)
    \/ Complete

SpecProvider == InitProvider /\ [][NextProvider]_vars

----------------------------------------------------------------------------
(* Startup: the module is loaded to its end, where app.listen is called;   *)
(* callbacks, those of the Schema Initializer included, run afterwards     *)

\* initializeDatabase of part_004 (lines 33-131) completes, in a callback
\* and so after the module has been loaded: on its own connection it has
\* created the tables, or the open failed and the callback logged the error
InitializeDatabase(openOk) ==
    /\ boot.variant = "per-request"
    /\ boot.listening
    /\ boot.init = "pending"
    /\ Idle
    /\ schema' = IF openOk THEN InitializeTables(schema).tables ELSE schema
    /\ boot' = [boot EXCEPT !.init = IF openOk THEN "done" ELSE "failed",
                            !.err = InitializeTables(schema).err]
    /\ UNCHANGED <<target, goals, tasks, seq, now, req, resp, env, issued,
                   call, ui>>

\* db.serialize of the shared connection (server.js lines 722-786): the
\* queued CREATE TABLE statements have run
SerializeSchema ==
    /\ boot.variant = "shared"
    /\ boot.listening
    /\ boot.init = "pending"
    /\ Idle
    /\ schema' = InitializeTables(schema).tables
    /\ boot' = [boot EXCEPT !.init = "done",
                            !.err = InitializeTables(schema).err]
    /\ UNCHANGED <<target, goals, tasks, seq, now, req, resp, env, issued,
                   call, ui>>

\* app.listen(PORT): requests reach the handlers from here on
Listen ==
    /\ ~boot.listening
    /\ boot' = [boot EXCEPT !.listening = TRUE]
    /\ UNCHANGED <<target, goals, tasks, seq, now, req, resp, env, issued,
                   call, schema, ui>>

\* a first start on an empty data directory, or a start on a file that an
\* earlier run initialized and filled
InitStartup ==
    /\ target = "file"
    /\ schema \in { {}, Tables }
    /\ goals \in IF schema = Tables
                 THEN StoredGoals({"high", "medium"}, {0}, {NULL})
                 ELSE { <<>> }
    /\ tasks \in IF schema = Tables
                 THEN StoredTasks({NullInt}, {"pending"}, {"high"}, {NULL})
                 ELSE { <<>> }
    /\ seq = Len(goals)
    /\ now = 0
    /\ req = NoReq
    /\ resp = NoResp
    /\ env = NoEnv
    /\ issued = <<>>
    /\ call = NoCall
    /\ ui = NoUi
    /\ boot \in { [Booted EXCEPT !.variant = v, !.listening = FALSE,
                                  !.init = "pending"] :
                   v \in {"shared", "per-request"} }

NextStartup ==
    \/ Listen
    \/ \E openOk \in BOOLEAN : InitializeDatabase(openOk)
    \/ SerializeSchema
    \/ \E writable \in BOOLEAN, openOk \in BOOLEAN :
          GetGoalsUninitialized(writable, openOk)
    \/ \E q \in SurfaceRequests, db \in {"ok", "query_failed"} :
          GetShared(q.path, q.goal_id, q.status, db)
    \/ Complete

SpecStartup == InitStartup /\ [][NextStartup]_vars

----------------------------------------------------------------------------
(* GET /api/health of part_004 (lines 373-473) step by step.  waited 1 is  *)
(* 3000 ms after the request, waited 2 is 5000 ms.                         *)

\* the handler starts checkDatabase() and arms the 5000 ms overall timer
\* and the 3000 ms database-check timer
BeginHealthTimed ==
    /\ Idle
    /\ target # ":memory:"
    /\ req' = [NoReq EXCEPT !.server = "full", !.method = "GET",
                            !.path = <<"api", "health">>, !.db = "pending"]
    /\ call' = [NoCall EXCEPT !.query = "running", !.dbTimer = "armed",
                              !.overall = "armed"]
    /\ UNCHANGED <<target, goals, tasks, seq, now, resp, env, issued,
                   schema, boot, ui>>

\* The database-check timer's callback: the probe has not completed (it
\* would have cleared the timer).  It clears the overall timer and sends.
\* The overall timer is due later than this one and is cleared here or by
\* the probe, so its own callback never runs.
DatabaseTimeoutFires ==
    /\ call.dbTimer = "armed"
    /\ call.waited = 1
    /\ call' = [call EXCEPT !.dbTimer = "fired", !.overall = "cleared",
                            !.sends = @ + 1]
    /\ resp' = FullHealthReply("healthy", "check_timeout")
    /\ UNCHANGED <<target, goals, tasks, seq, now, req, env, issued,
                   schema, boot, ui>>

\* checkDatabase() resolves with what the probe found.  The .then callback
\* clears both timers and calls res.json; when the database-check timer has
\* answered already, that res.json throws, the .catch callback runs and
\* calls res.json again, which throws as well.
ProbeCompletes(db) ==
    /\ call.query = "running"
    /\ call.dbTimer # "none"
    /\ req' = [req EXCEPT !.db = db]
    /\ call' = [call EXCEPT !.query = "returned",
                            !.dbTimer = IF @ = "armed" THEN "cleared" ELSE @,
                            !.overall = IF @ = "armed" THEN "cleared" ELSE @,
                            !.sends = IF resp = NoResp THEN @ + 1 ELSE @ + 2,
                            !.threw = (resp # NoResp)]
    /\ resp' = IF resp # NoResp THEN resp
               ELSE IF db = "ok" THEN FullHealthReply("healthy", "connected")
               ELSE FullHealthReply("degraded", "error")
    /\ UNCHANGED <<target, goals, tasks, seq, now, env, issued, schema, boot,
                   ui>>

NextHealthTimers ==
    \/ BeginHealthTimed
    \/ Elapse
    \/ DatabaseTimeoutFires
    \/ \E db \in {"ok", "open_failed", "query_failed"} : ProbeCompletes(db)
    \/ \E p \in { q \in GoalPayloads : q.title = "a" } : PostGoal(p, TRUE)
    \/ Complete

SpecHealthTimers == Init /\ [][NextHealthTimers]_vars

----------------------------------------------------------------------------
(* The page's focus timer step by step.  JavaScript runs each callback to  *)
(* its end before the next one starts, so each action is one callback.     *)

\* clearInterval(h) on the browser's intervals
clearInterval(active, h) == { r \in active : r.h # h }

startFocusTimerUncleared(u, elem) ==
    IF elem # "span" THEN u
    ELSE [u EXCEPT !.active = @ \cup {[h |-> u.handles + 1,
                                       timeLeft |-> focusTime]},
                   !.focusTimer = u.handles + 1,
                   !.handles = @ + 1]

\* startFocusTimer(): elem is what the page holds for #focusTimer: "span"
\* when the element has its span, "nospan" when querySelector finds none
\* (the method returns).  It clears the interval this.focusTimer names and
\* starts one whose closure holds timeLeft = this.focusTime.
startFocusTimer(u, elem) ==
    IF elem # "span" THEN u
    ELSE [u EXCEPT !.active = clearInterval(@, u.focusTimer)
                                \cup {[h |-> u.handles + 1,
                                       timeLeft |-> focusTime]},
                   !.focusTimer = u.handles + 1,
                   !.handles = @ + 1]

\* the Focus button's click handler: getNextTask() up to its await
getNextTask ==
    /\ ui.fetching < MaxInFlight
    /\ ui' = [ui EXCEPT !.fetching = @ + 1]
    /\ UNCHANGED <<target, goals, tasks, seq, now, req, resp, env, issued,
                   call, schema, boot>>

\* getNextTask() after its await.  outcome "failed": fetch or json()
\* rejected; "message": the server has no task; "task": a task, which is
\* rendered and the timer started.  elem "missing": the page has no
\* #focusTimer, startFocusTimer throws and getNextTask catches.
getNextTaskResumes(outcome, elem) ==
    /\ ui.fetching > 0
    /\ ui.handles < MaxStarts
    /\ ui' = IF outcome = "failed" THEN [ui EXCEPT !.fetching = @ - 1]
             ELSE IF outcome = "message"
             THEN [ui EXCEPT !.fetching = @ - 1, !.rendered = FALSE]
             ELSE [startFocusTimer(ui, elem) EXCEPT !.fetching = @ - 1,
                                                    !.rendered = TRUE]
    /\ UNCHANGED <<target, goals, tasks, seq, now, req, resp, env, issued,
                   call, schema, boot>>

\* the Skip button's click handler: getNextTask is called 1000 ms later
skipTask ==
    /\ ui.rendered
    /\ ui.skips < MaxInFlight
    /\ ui' = [ui EXCEPT !.skips = @ + 1]
    /\ UNCHANGED <<target, goals, tasks, seq, now, req, resp, env, issued,
                   call, schema, boot>>

\* the timeout of skipTask is due and calls getNextTask()
SkipTimeout ==
    /\ ui.skips > 0
    /\ ui.fetching < MaxInFlight
    /\ ui' = [ui EXCEPT !.skips = @ - 1, !.fetching = @ + 1]
    /\ UNCHANGED <<target, goals, tasks, seq, now, req, resp, env, issued,
                   call, schema, boot>>

\* the callback of one interval the browser runs: it decrements its
\* timeLeft, writes it, and at 0 or below clears the interval
\* this.focusTimer names and writes 25:00
IntervalTick(h) ==
    \E r \in ui.active :
        /\ r.h = h
        /\ LET left == r.timeLeft - 1
               ticked == (ui.active \ {r}) \cup {[r EXCEPT !.timeLeft = left]}
           IN ui' = IF left <= 0
                    THEN [ui EXCEPT !.active = clearInterval(ticked,
                                                             ui.focusTimer),
                                    !.written = left,
                                    !.text = focusTime,
                                    !.finished = @ + 1]
                    ELSE [ui EXCEPT !.active = ticked,
                                    !.written = left,
                                    !.text = left]
        /\ UNCHANGED <<target, goals, tasks, seq, now, req, resp, env, issued,
                       call, schema, boot>>

NextFocusTimer ==
    \/ getNextTask
    \/ \E outcome \in {"failed", "message", "task"},
          elem \in {"span", "nospan", "missing"} :
            getNextTaskResumes(outcome, elem)
    \/ skipTask
    \/ SkipTimeout
    \/ \E h \in 1..MaxStarts : IntervalTick(h)

SpecFocusTimer == Init /\ [][NextFocusTimer]_vars

----------------------------------------------------------------------------
(* Startup of the full server in every environment *)

\* server.js lines 23-77, run once when the module is loaded
ResolveDatabasePath ==
    /\ target = Unresolved
    /\ target' = SelectDatabasePath(env)
    /\ env' = [env EXCEPT !.dirs = DirsAfter(env, SelectDatabasePath(env))]
    /\ UNCHANGED <<goals, tasks, seq, now, req, resp, issued, call,
                   schema, boot, ui>>

InitLocator ==
    /\ target = Unresolved
    /\ env \in Environments
    /\ goals = <<>>
    /\ tasks = <<>>
    /\ seq = 0
    /\ now = 0
    /\ req = NoReq
    /\ resp = NoResp
    /\ issued = <<>>
    /\ call = NoCall
    /\ ui = NoUi
    /\ schema = Tables
    /\ boot = Booted

NextLocator == ResolveDatabasePath

SpecLocator == InitLocator /\ [][NextLocator]_vars

----------------------------------------------------------------------------
(* GET /api/health of every server, on either target *)

InitHealth ==
    /\ target \in StorageTargets
    /\ goals = <<>>
    /\ tasks = <<>>
    /\ seq = 0
    /\ now = 0
    /\ req = NoReq
    /\ resp = NoResp
    /\ env = NoEnv
    /\ issued = <<>>
    /\ call = NoCall
    /\ ui = NoUi
    /\ schema = Tables
    /\ boot = Booted

NextHealth ==
    \/ \E p \in { q \in GoalPayloads : q.title = "a" }, openOk \in BOOLEAN :
          PostGoal(p, openOk)
    \/ \E db \in {"ok", "open_failed", "memory_failed", "query_failed"} :
          GetHealth(db)
    \/ \E db \in {"ok", "query_failed"} : GetHealthShared(db)
    \/ \E db \in {"ok", "open_failed", "query_failed", "slow"} :
          GetHealthTimed(db)
    \/ \E bodyOk \in BOOLEAN, db \in {"ok", "open_failed", "query_failed"} :
          Gateway("GET", <<"api", "health">>, bodyOk, undefined, undefined, db)
    \/ Complete
    \/ Restart

SpecHealth == InitHealth /\ [][NextHealth]_vars

----------------------------------------------------------------------------
(* Claims *)

\* the last request was a non-GET request to the gateway under a guarded prefix
GatewayWrite(r) ==
    r.server = "gateway" /\ r.method # "GET" /\ Mounted(r.path)

\* C1, as stated: on the gateway every non-GET request under a guarded
\* prefix is answered 403 with the fields error, message and hint and opens
\* no storage connection.
C1_EveryNonGetRejected ==
    GatewayWrite(req) =>
        /\ resp.status = 403
        /\ resp.keys = {"error", "message", "hint"}
        /\ ~resp.dbOpened

\* C1, amended: a non-GET request under a guarded prefix opens no storage
\* connection and leaves the goals of the shared store as they are; it is
\* answered 204 by cors() when it is an OPTIONS request, 400 by the body
\* parser when its JSON body does not parse, and otherwise 403, which for
\* POST, PUT, PATCH and DELETE carries the fields error, message and hint.
C1_WritesRejectedWithoutStorage ==
    /\ [](GatewayWrite(req) =>
            /\ ~resp.dbOpened
            /\ IF req.method = "OPTIONS" THEN resp.status = 204
               ELSE IF ~req.bodyOk THEN resp.status = 400
               ELSE /\ resp.status = 403
                    /\ req.method \in {"POST", "PUT", "PATCH", "DELETE"}
                          => resp.keys = {"error", "message", "hint"})
    /\ [][GatewayWrite(req') /\ (req' # req \/ resp' # resp) => goals' = goals]_vars

\* a POST to /api/goals on the gateway was rejected while the store holds a goal
C1_Witness ==
    /\ GatewayWrite(req)
    /\ req.method = "POST" /\ req.path = <<"api", "goals">>
    /\ resp.status = 403
    /\ Len(goals) > 0

\* the last request was a POST /api/goals to the full server that succeeded
GoalCreated ==
    req.server = "full" /\ req.method = "POST" /\ resp.kind = "created"

\* row carries the values of payload b, and the defaults where b omits a field
CarriesSubmitted(row, b) ==
    /\ row.title = b.title
    /\ b.description # undefined => row.description = b.description
    /\ b.category # undefined => row.category = b.category
    /\ b.target_date # undefined => row.target_date = b.target_date
    /\ row.priority = IF b.priority = undefined THEN "medium" ELSE b.priority
    /\ row.progress = 0

\* C2: after a POST /api/goals with a non-empty title, the returned id is in
\* a following GET /api/goals exactly once, with the submitted values, and
\* with priority "medium" when priority was omitted and progress 0.
C2_CreatedGoalListedWithDefaults ==
    GoalCreated /\ req.body.title \notin {undefined, ""} =>
        \A rows \in SelectGoals(goals) :
            /\ Cardinality({ i \in 1..Len(rows) : rows[i].id = resp.id }) = 1
            /\ \A i \in 1..Len(rows) :
                  rows[i].id = resp.id => CarriesSubmitted(rows[i], req.body)

\* the last request was a GET /api/goals that returned rows
GoalsListed ==
    req.method = "GET" /\ req.path = <<"api", "goals">> /\ resp.kind = "rows"

\* C7: the rows of GET /api/goals and GET /api/tasks are in the order of
\* their priority rank: high, medium, low, then unset or unrecognized.
C7_ListedByPriorityRank ==
    resp.kind = "rows" =>
        \A i, j \in 1..Len(resp.rows) :
            i < j => PriorityRank(resp.rows[i].priority)
                        <= PriorityRank(resp.rows[j].priority)

\* C8: in GET /api/goals, of two goals of equal priority rank the one
\* created later (the one with the larger id) comes first, also when both
\* were created within the same second.
C8_NewestFirstWithinRank ==
    GoalsListed =>
        \A i, j \in 1..Len(resp.rows) :
            /\ i < j
            /\ PriorityRank(resp.rows[i].priority) = PriorityRank(resp.rows[j].priority)
            => resp.rows[i].id > resp.rows[j].id

\* the last request was a GET /api/focus/next-task, to either server
FocusAsked ==
    req.method = "GET" /\ req.path = <<"api", "focus", "next-task">>

\* the pending tasks of the store
Pending == { i \in 1..Len(tasks) : tasks[i].status = "pending" }

\* the ranks of the specification: high 1, medium 2, low 3, anything else 4
Rank(p) ==
    IF p = "high" THEN 1 ELSE IF p = "medium" THEN 2
    ELSE IF p = "low" THEN 3 ELSE 4

\* the goal rows task t belongs to
GoalsOf(t) == { i \in 1..Len(goals) : goals[i].id = t.goal_id }

GoalRank(t) ==
    IF GoalsOf(t) = {} THEN 4
    ELSE Rank(goals[CHOOSE i \in GoalsOf(t) : TRUE].priority)

\* task a has a smaller (goal rank, task rank, due date) tuple than task b;
\* due dates are compared where both tasks have one
TupleLess(a, b) ==
    \/ GoalRank(a) < GoalRank(b)
    \/ /\ GoalRank(a) = GoalRank(b)
       /\ \/ Rank(a.priority) < Rank(b.priority)
          \/ /\ Rank(a.priority) = Rank(b.priority)
             /\ a.due_date # NULL /\ b.due_date # NULL
             /\ TextRank(a.due_date) < TextRank(b.due_date)

\* the stored tasks the returned row may be (the one with its id)
Selected == { i \in 1..Len(tasks) : tasks[i].id = resp.rows[1].id }

\* C3: with a pending task in the store, GET /api/focus/next-task returns a
\* pending task whose (goal priority rank, task priority rank, due_date)
\* tuple no pending task undercuts; goal priority dominates task priority.
C3_FocusSelectsMinimalTuple ==
    FocusAsked /\ req.db = "ok" /\ Pending # {} =>
        /\ resp.status = 200 /\ resp.kind = "row"
        /\ \E i \in Selected :
              /\ i \in Pending
              /\ \A j \in Pending : ~TupleLess(tasks[j], tasks[i])

\* T1 (goal high, task low, due 2025-01-10) is selected over T2 (goal medium,
\* task high, due 2025-01-01)
C3_Witness ==
    /\ FocusAsked /\ resp.kind = "row"
    /\ resp.rows[1].goal_priority = "high" /\ resp.rows[1].priority = "low"
    /\ resp.rows[1].due_date = "2025-01-10"
    /\ \E j \in Pending :
          /\ GoalRank(tasks[j]) = 2 /\ tasks[j].priority = "high"
          /\ tasks[j].due_date = "2025-01-01"

\* C4: among pending tasks of equal goal rank and equal task rank, a task
\* with a due date is selected in preference to one whose due_date is null.
C4_DatedBeforeUndated ==
    FocusAsked /\ resp.kind = "row" /\ resp.rows[1].due_date = NULL =>
        \A i \in Selected, j \in Pending :
            /\ GoalRank(tasks[j]) = GoalRank(tasks[i])
            /\ Rank(tasks[j].priority) = Rank(tasks[i].priority)
            => tasks[j].due_date = NULL

\* C5: a pending task with no goal (goal_id null or naming no goal row) is
\* not selected while some pending task belongs to a goal whose priority is
\* high, medium or low.
C5_GoallessTaskNotSelected ==
    /\ FocusAsked /\ resp.kind = "row"
    /\ \E j \in Pending : GoalRank(tasks[j]) \in {1, 2, 3}
    => \A i \in Selected : GoalsOf(tasks[i]) # {}

\* a task of a medium goal was selected though a pending task without a goal
\* has the higher task priority and the earlier due date
C5_Witness ==
    /\ FocusAsked /\ resp.kind = "row"
    /\ resp.rows[1].goal_priority = "medium" /\ resp.rows[1].priority = "low"
    /\ resp.rows[1].due_date = "2025-01-10"
    /\ \E j \in Pending :
          /\ GoalsOf(tasks[j]) = {} /\ tasks[j].priority = "high"
          /\ tasks[j].due_date = "2025-01-01"

\* C6: when no task is pending, GET /api/focus/next-task answers the query's
\* empty result with status 200 and the body { message }, not with an error.
C6_NoPendingSentinel ==
    FocusAsked /\ req.db = "ok" /\ Pending = {} =>
        /\ resp.status = 200
        /\ resp.kind = "sentinel"
        /\ resp.keys = {"message"}

\* the sentinel was returned by the gateway for a store whose tasks are all
\* completed
C6_Witness ==
    /\ FocusAsked /\ req.server = "gateway" /\ req.db = "ok"
    /\ Len(tasks) > 0 /\ Pending = {}
    /\ resp.kind = "sentinel"

\* the last request was a GET /api/tasks, to either server
TasksAsked == req.method = "GET" /\ req.path = <<"api", "tasks">>

\* a filter is given when the query string names a non-empty value for it
Given(v) == v \notin {undefined, ""}

\* task t passes every filter the last request gives
PassesFilters(t) ==
    /\ Given(req.goal_id) =>
          \E n \in 1..Len(Decimal) : Decimal[n] = req.goal_id /\ t.goal_id = n
    /\ Given(req.status) => t.status = req.status

\* C9: GET /api/tasks returns exactly the tasks that match every filter
\* given: all tasks with no filter, the tasks of the goal with goal_id, the
\* tasks in the status with status, and those matching both with both.
C9_TasksMatchEveryFilter ==
    TasksAsked /\ req.db = "ok" =>
        /\ resp.status = 200 /\ resp.kind = "rows"
        /\ \A k \in 1..Len(resp.rows) :
              \E i \in 1..Len(tasks) : resp.rows[k] = tasks[i]
        /\ { resp.rows[k].id : k \in 1..Len(resp.rows) }
              = { tasks[i].id : i \in { j \in 1..Len(tasks) : PassesFilters(tasks[j]) } }
        /\ \A k, l \in 1..Len(resp.rows) :
              resp.rows[k].id = resp.rows[l].id => k = l

\* with both filters given, one of two tasks of the goal was returned and
\* the other, which is in another status, was not
C9_Witness ==
    /\ TasksAsked /\ req.db = "ok"
    /\ Given(req.goal_id) /\ Given(req.status)
    /\ Len(tasks) = 2 /\ Len(resp.rows) = 1
    /\ \A i \in 1..2 : tasks[i].goal_id = 1
    /\ req.goal_id = "1"

\* the last request was a GET /api/progress/summary, to either server
SummaryAsked ==
    req.method = "GET" /\ req.path = <<"api", "progress", "summary">>

\* C10: for every stored set of goals and tasks, the empty set of goals
\* included, GET /api/progress/summary returns total_goals = the number of
\* goals, completed_goals = the number of goals with progress 100,
\* average_progress = the mean of progress, categories_count = the number
\* of distinct non-null categories, and one { status, count } entry per
\* status present with the number of tasks in it.
C10_SummaryCounts ==
    SummaryAsked /\ req.db = "ok" =>
        LET n == Len(goals) IN
        /\ resp.status = 200 /\ resp.kind = "summary"
        /\ resp.summary.total_goals = n
        /\ resp.summary.completed_goals
              = Cardinality({ i \in 1..n : goals[i].progress = 100 })
        /\ ~resp.summary.average_progress.isNull
        /\ n > 0 =>
              resp.summary.average_progress.num * n
                  = resp.summary.average_progress.den * SumProgress(goals)
        /\ resp.summary.categories_count
              = Cardinality({ goals[i].category : i \in 1..n } \ {NULL})
        /\ \A s \in { tasks[i].status : i \in 1..Len(tasks) } :
              Cardinality({ e \in resp.tasks : e.status = s }) = 1
        /\ \A e \in resp.tasks :
              e.count = Cardinality({ i \in 1..Len(tasks) : tasks[i].status = e.status })

\* the directory passes the claim's two checks: it exists, after a recursive
\* create attempt where it was missing, and it is writable
Usable(c) ==
    (env.dirs[c].exists \/ env.dirs[c].creatable) /\ env.dirs[c].writable

NoOverride == env.override \in {undefined, ""}

\* C11: with no override configured the Storage Locator resolves to the
\* first candidate, in the fixed order, whose directory exists after a create
\* attempt and is writable; a failing candidate only eliminates itself; the
\* in-memory sentinel is selected if and only if every candidate fails.
C11_FirstUsableCandidate ==
    target # Unresolved /\ NoOverride =>
        /\ \A i \in 1..Len(Locations) :
              target = Locations[i] <=>
                  /\ Usable(Locations[i])
                  /\ \A j \in 1..(i - 1) : ~Usable(Locations[j])
        /\ target = ":memory:" <=> \A i \in 1..Len(Locations) : ~Usable(Locations[i])
        /\ target \in {Locations[i] : i \in 1..Len(Locations)} \cup {":memory:"}

\* the second location was selected after its missing directory was created,
\* the first one having failed
C11_Witness ==
    /\ NoOverride /\ target = "home"
    /\ ~env.dirs["data"].writable
    /\ env.dirs["home"].exists /\ env.dirs["home"].creatable
    /\ ~env.dirs["tmp"].exists

\* C12, as stated: in every configuration the resolved target is a file
\* whose directory is writable, or the in-memory sentinel.
C12_TargetWritableOrTransient ==
    target # Unresolved =>
        \/ target = ":memory:"
        \/ env.dirs[target].exists /\ env.dirs[target].writable

\* C12, amended: exactly one target is resolved; with no override it is a
\* file whose directory exists and is writable, or the in-memory sentinel;
\* with an override it is the override's file, whatever its directory.
C12_OverrideTakenAsIs ==
    target # Unresolved =>
        IF NoOverride
        THEN \/ target = ":memory:"
             \/ /\ target \in {Locations[i] : i \in 1..Len(Locations)}
                /\ env.dirs[target].exists /\ env.dirs[target].writable
        ELSE target = env.override

\* the override was taken though its directory cannot be written, while a
\* candidate location could
C12_Witness ==
    /\ env.override = Custom /\ target = Custom
    /\ ~env.dirs[Custom].writable
    /\ Usable("data")

\* the process runs on the transient store
Transient == target = ":memory:"

\* C13: on the transient store a POST /api/goals with a title succeeds, the
\* goal it created is listed by a later GET /api/goals of the same process,
\* and no goal of an earlier process is listed after a restart.
C13_TransientGoalVisibleUntilRestart ==
    /\ Transient /\ req.server = "full" /\ req.method = "POST"
           /\ Truthy(req.body.title) => resp.status = 200 /\ resp.kind = "created"
    /\ Transient /\ GoalsListed =>
          /\ \A k \in 1..Len(issued) :
                Cardinality({ i \in 1..Len(resp.rows) : resp.rows[i].id = issued[k] }) = 1
          /\ \A i \in 1..Len(resp.rows) :
                \E k \in 1..Len(issued) : resp.rows[i].id = issued[k]

\* the last request was a GET /api/health with a body the parser accepts
HealthAsked ==
    req.method = "GET" /\ req.path = <<"api", "health">> /\ req.bodyOk

\* C14: on the transient store GET /api/health is answered and its status
\* field is degraded, not healthy.
C14_TransientHealthDegraded ==
    Transient /\ HealthAsked /\ req.server = "full" =>
        resp.status = 200 /\ resp.health = "degraded"

\* C15: GET /api/health is answered with status 200 and a status field of
\* healthy or degraded, whether the storage opens, the open fails or the
\* probe query fails, on the full server and on the gateway.
C15_HealthAlwaysAnswered ==
    HealthAsked =>
        /\ resp.status = 200 /\ resp.kind = "health"
        /\ resp.health \in {"healthy", "degraded"}

\* the gateway could not open the file and still answered 200, degraded
C15_Witness ==
    /\ HealthAsked /\ req.server = "gateway" /\ req.db = "open_failed"
    /\ resp.status = 200 /\ resp.health = "degraded"
    /\ Len(goals) > 0

\* a request to a storage route is in progress
StorageAsked == ~Idle /\ req.path \in StoragePaths /\ req.db # "none"

\* C16: a request that touches storage is answered within 5000 ms: once
\* more than 5000 ms have passed since its storage call was issued it has
\* its response, the timeout error if the storage result had not arrived.
C16_AnsweredWithinTimeout ==
    StorageAsked /\ call.waited = 2 =>
        /\ resp # NoResp
        /\ call.query = "running" => resp.status = 504

\* C17: a write that waited out the 5000 ms busy timeout for the write lock
\* fails instead of blocking, and its request is answered 504, not 500.
C17_LockTimeoutAnswered504 ==
    req.method = "POST" /\ req.db = "busy" =>
        /\ call.query = "returned"
        /\ resp.status = 504

\* C18: every error response of the goals, tasks, focus/next-task and
\* progress/summary endpoints is structured JSON with an error field,
\* whatever made the handler fail.
C18_ErrorsAreJsonWithErrorField ==
    StorageAsked /\ resp.status >= 400 =>
        resp.kind = "error" /\ "error" \in resp.keys

\* C19: a POST /api/goals whose title is missing or is the empty string
\* creates no goal: it is answered with an error and the store is left as
\* it was.
C19_TitleRequiredNonEmpty ==
    [][ /\ Idle
        /\ req'.method = "POST"
        /\ req'.path = <<"api", "goals">>
        /\ req'.body.title \in {undefined, ""}
        => /\ resp'.status >= 400
           /\ resp'.kind = "error"
           /\ goals' = goals
           /\ seq' = seq ]_vars

\* status and body of a response
Sent(r) == [r EXCEPT !.dbOpened = FALSE]

\* a GET to one of the four storage routes was answered from the store
SurfaceAnswered(server) ==
    /\ req.server = server
    /\ req.method = "GET"
    /\ req.path \in StoragePaths
    /\ req.db = "ok"

C21_PostedTaskIsListed ==
    /\ req.server = "full" /\ req.method = "POST"
         /\ req.path = <<"api", "tasks">> =>
            /\ resp.status \in 200..299
            /\ \E i \in 1..Len(tasks) : tasks[i].title = req.body.title
    /\ req.server = "full" /\ req.method = "GET" /\ req.db = "ok"
         /\ req.path = <<"api", "tasks">>
         /\ ~Given(req.goal_id) /\ ~Given(req.status) =>
            \A i \in 1..Len(tasks) :
                \E k \in 1..Len(resp.rows) : resp.rows[k] = tasks[i]

\* the rows of a table
Stored(rows) == { rows[i] : i \in 1..Len(rows) }

\* C22: no request updates or deletes an entity: every stored goal and task
\* is stored after the request with the same field values, and every id a
\* POST /api/goals returned names a stored goal.
C22_NothingUpdatedOrDeleted ==
    [][ /\ Stored(goals) \subseteq Stored(goals')
        /\ Stored(tasks) \subseteq Stored(tasks')
        /\ \A k \in 1..Len(issued') :
              \E g \in Stored(goals') : g.id = issued'[k] ]_vars

\* the mock DELETE of a stored goal's id was answered with success, and
\* the goal is stored
C22_Witness ==
    /\ req.method = "DELETE"
    /\ resp.status = 200
    /\ \E g \in Stored(goals) : req.path = <<"api", "mock", "goals", Decimal[g.id]>>

\* C23: schema initialization is idempotent: a run of the initializer, the
\* first or a later one, on one connection or on a new connection to a
\* store that holds rows, raises no error, leaves every table that exists
\* as it is, and loses no stored row.
C23_SchemaInitializationIdempotent ==
    [][ /\ ~boot'.err
        /\ schema \subseteq schema'
        /\ schema = Tables => schema' = Tables
        /\ Stored(goals) \subseteq Stored(goals')
        /\ Stored(tasks) \subseteq Stored(tasks')
        /\ boot'.runs # boot.runs =>
              /\ schema' = Tables
              /\ goals' = goals /\ tasks' = tasks ]_vars

\* the initializer has run twice on a store that holds rows
C23_Witness ==
    /\ boot.runs = 2
    /\ ~boot.err
    /\ schema = Tables
    /\ Len(goals) > 0 /\ Len(tasks) > 0

\* C24: every connection the Connection Provider hands to a handler has
\* all five tables, is an in-memory one when the target is the transient
\* sentinel or the file does not open, and the handler's query does not
\* fail for a missing table.
C24_ProvidedConnectionHasSchema ==
    call.conn # "none" =>
        /\ call.tables = Tables
        /\ target = ":memory:" => call.conn = "memory"
        /\ resp # NoSuchTable

\* C25: the Schema Initializer completes at startup before handlers become
\* reachable: when a handler has run its query against the store, the five
\* tables have been created.
C25_SchemaBeforeHandlers ==
    StorageAsked /\ call.conn # "memory" => schema = Tables

\* the goals handler's watchdog or its storage callback has run
WatchedAnswered ==
    /\ req.server = "full"
    /\ req.path = <<"api", "goals">>
    /\ call.timer \in {"fired", "cleared"}

\* C26: for GET and POST /api/goals, whichever of the watchdog timer and
\* the storage callback runs first, exactly one response is sent for the
\* request: the handler does not send the query result and the 504 both.
C26_ExactlyOneResponse ==
    WatchedAnswered => call.sends = 1 /\ ~call.threw

\* a timer of the health handler or its probe has answered
HealthTimedAnswered ==
    /\ req.path = <<"api", "health">>
    /\ call.dbTimer \in {"fired", "cleared"}

\* C27: for GET /api/health with the 3000 ms database-check timer and the
\* 5000 ms overall timer, in whichever order the timers and the completion
\* of the probe come, exactly one response is sent for the request.
C27_HealthExactlyOneResponse ==
    HealthTimedAnswered => call.sends = 1 /\ ~call.threw

\* C28: every connection a handler is given for a request is closed exactly
\* once on every path: it is never closed twice, and it has been closed when
\* the handler's query callback has run.
C28_ConnectionClosedExactlyOnce ==
    /\ call.closes <= 1
    /\ call.conn # "none" /\ call.query = "returned" => call.closes = 1

\* C29: any two successful POST /api/goals requests served by the same
\* process return different ids, whichever storage target the process
\* resolved to.
C29_IssuedIdsDistinct ==
    \A i, j \in 1..Len(issued) : i # j => issued[i] # issued[j]

\* the intervals of the focus timer the browser runs
Countdowns == ui.active

\* C30: in the page's focus timer, after any sequence of startFocusTimer
\* calls and ticks, at most one countdown interval is active; each countdown
\* starts from 1500 seconds, decreases by one per tick, never shows a
\* negative time, and stops itself when it reaches 0.
C30_FocusTimerCountsDownAlone ==
    /\ [](/\ Cardinality(Countdowns) <= 1
          /\ \A r \in Countdowns : r.timeLeft > 0 /\ r.timeLeft <= 1500
          /\ ui.written >= 0 /\ ui.text >= 0)
    /\ [][\A r \in Countdowns' :
             IF \E q \in Countdowns : q.h = r.h
             THEN \E q \in Countdowns :
                     q.h = r.h /\ r.timeLeft \in {q.timeLeft, q.timeLeft - 1}
             ELSE r.timeLeft = 1500]_vars

\* a countdown ran to 0 and stopped, and a later one has been started over
\* a running one and has ticked
C30_Witness ==
    /\ ui.finished >= 1
    /\ ui.handles >= 3
    /\ \E r \in Countdowns : r.timeLeft < 1500

====
